---- MODULE Spec2Model ----
(***************************************************************************)
(* Roster Purifier: the spreadsheet services (parseYMD, findMajorityMonth, *)
(* cleanRosterData, updateNames) and the pipeline driver of the App        *)
(* component (startProcessing, handleExport, reset).                       *)
(*                                                                         *)
(* Strings are sequences of one-character strings, so that split, trim,    *)
(* parseInt, toLowerCase, includes and the parenthesis regex are computed  *)
(* character by character as the JavaScript does.                          *)
(***************************************************************************)
EXTENDS Integers, Sequences, FiniteSets, TLC

VARIABLES
    nativeResult,   \* what the host's Date(string) parser yields for a digit-bearing irregular string
    input,          \* arguments of the service call under study
    output,         \* its return value
    called,         \* whether the call has returned
    rosterFile, staffFile, processing, step, cleanedRoster, majorityMonth, activeTab,
    pc,             \* position of the one startProcessing invocation in flight
    job,            \* the files that invocation read from the render it was started in
    rosterSheets,   \* startProcessing local, kept across its second await
    stages,         \* history: the stages the latest run has completed, in order
    outcome,        \* history: how the latest run ended
    exported,       \* history: what the export since the last reset handed to the codec, and from where
    edits           \* history: the number of cell edits made

vars == <<nativeResult, input, output, called, rosterFile, staffFile, processing, step,
          cleanedRoster, majorityMonth, activeTab, pc, job, rosterSheets,
          stages, outcome, exported, edits>>

fnVars == <<input, output, called>>

appVars == <<rosterFile, staffFile, processing, step, cleanedRoster, majorityMonth, activeTab,
             pc, job, rosterSheets, stages, outcome, exported, edits>>

----------------------------------------------------------------------------
(* Cells: null, undefined (a read past the end of a row), string, number,  *)
(* Date.  A Date keeps the JavaScript fields: y = getFullYear(),           *)
(* m = getMonth() (0-based), d = getDate().                                *)

Null == [t |-> "null"]

Undefined == [t |-> "undef"]

Str(s) == [t |-> "str", s |-> s]

Num(n) == [t |-> "num", n |-> n]

DateV(y, m, d) == [t |-> "date", y |-> y, m |-> m, d |-> d]

InvalidDate == [t |-> "invalid"]

\* row[i] with JavaScript's 0-based index
At(row, i) == IF i + 1 \in 1..Len(row) THEN row[i + 1] ELSE Undefined

\* !val
Falsy(val) ==
    \/ val.t \in {"null", "undef"}
    \/ val.t = "str" /\ val.s = <<>>
    \/ val.t = "num" /\ val.n = 0

----------------------------------------------------------------------------
(* Characters and strings *)

DigitChars == <<"0", "1", "2", "3", "4", "5", "6", "7", "8", "9">>

IsDigit(c) == \E i \in 1..Len(DigitChars) : DigitChars[i] = c

DigitVal(c) == (CHOOSE i \in 1..Len(DigitChars) : DigitChars[i] = c) - 1

UpperChars == <<"A", "B", "C", "D", "E", "F", "G", "H", "I", "J", "K", "L", "M",
                "N", "O", "P", "Q", "R", "S", "T", "U", "V", "W", "X", "Y", "Z">>

LowerChars == <<"a", "b", "c", "d", "e", "f", "g", "h", "i", "j", "k", "l", "m",
                "n", "o", "p", "q", "r", "s", "t", "u", "v", "w", "x", "y", "z">>

IsSpace(c) == c = " "

LowerChar(c) ==
    IF \E i \in 1..Len(UpperChars) : UpperChars[i] = c
    THEN LowerChars[CHOOSE i \in 1..Len(UpperChars) : UpperChars[i] = c]
    ELSE c

\* String.prototype.toLowerCase
toLowerCase(s) == [i \in 1..Len(s) |-> LowerChar(s[i])]

RECURSIVE TrimStart(_)
TrimStart(s) == IF s # <<>> /\ IsSpace(Head(s)) THEN TrimStart(Tail(s)) ELSE s

RECURSIVE TrimEnd(_)
TrimEnd(s) ==
    IF s # <<>> /\ IsSpace(s[Len(s)]) THEN TrimEnd(SubSeq(s, 1, Len(s) - 1)) ELSE s

\* String.prototype.trim
trim(s) == TrimEnd(TrimStart(s))

\* String.prototype.includes
includes(s, sub) ==
    \E i \in 0..(Len(s) - Len(sub)) : SubSeq(s, i + 1, i + Len(sub)) = sub

\* the decimal digits of a non-negative integer
RECURSIVE DigitsOf(_)
DigitsOf(n) ==
    IF n < 10 THEN <<DigitChars[n + 1]>>
    ELSE Append(DigitsOf(n \div 10), DigitChars[(n % 10) + 1])

\* String.prototype.padStart(w, '0')
RECURSIVE padStart(_, _)
padStart(s, w) == IF Len(s) >= w THEN s ELSE padStart(<<"0">> \o s, w)

\* String(val) of a string or a non-negative integer
String(val) == IF val.t = "str" THEN val.s ELSE DigitsOf(val.n)

\* str.split(/[\/\-]/)
RECURSIVE SplitFrom(_, _)
SplitFrom(s, cur) ==
    IF s = <<>> THEN <<cur>>
    ELSE IF Head(s) \in {"/", "-"} THEN <<cur>> \o SplitFrom(Tail(s), <<>>)
    ELSE SplitFrom(Tail(s), Append(cur, Head(s)))

split(s) == SplitFrom(s, <<>>)

\* numbers as parseInt yields them: NaN or an integer
NaN == [nan |-> TRUE, v |-> 0]

IntV(n) == [nan |-> FALSE, v |-> n]

RECURSIVE DigitRun(_, _)
DigitRun(s, acc) ==
    IF s # <<>> /\ IsDigit(Head(s)) THEN DigitRun(Tail(s), 10 * acc + DigitVal(Head(s)))
    ELSE acc

\* parseInt(s, 10): leading white space, an optional sign, the longest digit prefix
parseInt(s) ==
    LET t == TrimStart(s)
        neg == t # <<>> /\ Head(t) = "-"
        u == IF t # <<>> /\ Head(t) \in {"+", "-"} THEN Tail(t) ELSE t
    IN  IF u = <<>> \/ ~IsDigit(Head(u)) THEN NaN
        ELSE IntV(IF neg THEN 0 - DigitRun(u, 0) ELSE DigitRun(u, 0))

----------------------------------------------------------------------------
(* Dates *)

IsLeap(y) == (y % 4 = 0 /\ y % 100 # 0) \/ y % 400 = 0

\* days of 0-based month m of year y
DaysInMonth(y, m) ==
    IF m = 1 THEN (IF IsLeap(y) THEN 29 ELSE 28)
    ELSE IF m \in {3, 5, 8, 10} THEN 30 ELSE 31

\* day d of month m of year y, carried into the neighbouring months as MakeDay does
RECURSIVE RollDay(_, _, _)
RollDay(y, m, d) ==
    IF d < 1
    THEN LET py == IF m = 0 THEN y - 1 ELSE y
             pm == IF m = 0 THEN 11 ELSE m - 1
         IN  RollDay(py, pm, d + DaysInMonth(py, pm))
    ELSE IF d > DaysInMonth(y, m)
    THEN RollDay(IF m = 11 THEN y + 1 ELSE y, IF m = 11 THEN 0 ELSE m + 1,
                 d - DaysInMonth(y, m))
    ELSE DateV(y, m, d)

\* new Date(y, m, d, 0, 0, 0): NaN gives an invalid date, a year 0..99 means 19xx,
\* months and days out of range carry over
NewDate(y, m, d) ==
    IF y.nan \/ m.nan \/ d.nan THEN InvalidDate
    ELSE LET yr == IF y.v \in 0..99 THEN 1900 + y.v ELSE y.v
         IN  RollDay(yr + (m.v \div 12), m.v % 12, d.v)

\* new Date(str): no digit, no date; the result for any other string that reaches the
\* fallback is the host's
NativeDate(str) ==
    IF \E i \in 1..Len(str) : IsDigit(str[i]) THEN nativeResult ELSE InvalidDate

Minus1(n) == IF n.nan THEN NaN ELSE IntV(n.v - 1)

parseYMD(val) ==
    IF val.t = "date" THEN val
    ELSE IF Falsy(val) THEN Null
    ELSE LET str == trim(String(val))
             parts == split(str)
             date == IF Len(parts) = 3
                     THEN NewDate(parseInt(parts[1]), Minus1(parseInt(parts[2])),
                                  parseInt(parts[3]))
                     ELSE InvalidDate
             fallback == NativeDate(str)
         IN  IF date # InvalidDate THEN date
             ELSE IF fallback = InvalidDate THEN Null ELSE fallback

\* `${d.getFullYear()}-${String(d.getMonth() + 1).padStart(2, '0')}`
MonthKey(d) == DigitsOf(d.y) \o <<"-">> \o padStart(DigitsOf(d.m + 1), 2)

----------------------------------------------------------------------------
(* findMajorityMonth *)

\* monthCounts[monthKey] = (monthCounts[monthKey] || 0) + n, on the record's entries in
\* insertion order (the order Object.entries lists string keys that are no array index)
BumpBy(monthCounts, monthKey, n) ==
    IF \E i \in 1..Len(monthCounts) : monthCounts[i].key = monthKey
    THEN LET i == CHOOSE j \in 1..Len(monthCounts) : monthCounts[j].key = monthKey
         IN  [monthCounts EXCEPT ![i].count = @ + n]
    ELSE Append(monthCounts, [key |-> monthKey, count |-> n])

\* monthCounts[monthKey] = (monthCounts[monthKey] || 0) + 1
Bump(monthCounts, monthKey) == BumpBy(monthCounts, monthKey, 1)

\* the counts after the increments that gave `later` are applied to `monthCounts`
RECURSIVE MergeCounts(_, _)
MergeCounts(monthCounts, later) ==
    IF later = <<>> THEN monthCounts
    ELSE MergeCounts(BumpBy(monthCounts, Head(later).key, Head(later).count), Tail(later))

\* a variant that counts the header row too
CountRowWithHeader(monthCounts, row, index) ==
    LET d == parseYMD(At(row, 2))
    IN  IF d # Null THEN Bump(monthCounts, MonthKey(d)) ELSE monthCounts

\* the body of sheet.data.forEach((row, index) => ...)
CountRow(monthCounts, row, index) ==
    IF index = 0 THEN monthCounts
    ELSE LET d == parseYMD(At(row, 2))
         IN  IF d # Null THEN Bump(monthCounts, MonthKey(d)) ELSE monthCounts

\* sheet.data.forEach over the rows at positions lo..hi, in order: the increments of the
\* first half, then those of the second (halving keeps the evaluation shallow)
RECURSIVE CountRows(_, _, _)
CountRows(data, lo, hi) ==
    IF lo > hi THEN <<>>
    ELSE IF lo = hi THEN CountRow(<<>>, data[lo], lo - 1)
    ELSE LET mid == (lo + hi) \div 2
         IN  MergeCounts(CountRows(data, lo, mid), CountRows(data, mid + 1, hi))

\* sheets.forEach
RECURSIVE CountSheets(_, _, _)
CountSheets(monthCounts, sheets, i) ==
    IF i > Len(sheets) THEN monthCounts
    ELSE CountSheets(MergeCounts(monthCounts,
                                 CountRows(sheets[i].data, 1, Len(sheets[i].data))),
                     sheets, i + 1)

\* a variant whose comparison is >=, so that a later key with the same count takes over
RECURSIVE PickMaxGE(_, _, _, _)
PickMaxGE(entries, i, maxCount, majority) ==
    IF i > Len(entries) THEN majority
    ELSE IF entries[i].count >= maxCount
         THEN PickMaxGE(entries, i + 1, entries[i].count, Str(entries[i].key))
         ELSE PickMaxGE(entries, i + 1, maxCount, majority)

\* Object.entries(monthCounts).forEach(([month, count]) => { if (count > maxCount) ... })
RECURSIVE PickMax(_, _, _, _)
PickMax(entries, i, maxCount, majority) ==
    IF i > Len(entries) THEN majority
    ELSE IF entries[i].count > maxCount
         THEN PickMax(entries, i + 1, entries[i].count, Str(entries[i].key))
         ELSE PickMax(entries, i + 1, maxCount, majority)

findMajorityMonth(sheets) == PickMax(CountSheets(<<>>, sheets, 1), 1, 0, Null)

----------------------------------------------------------------------------
(* cleanRosterData *)

RowLimit == 72

ColLimit == 8

Min(a, b) == IF a < b THEN a ELSE b

\* array.slice(0, n)
slice(a, n) == SubSeq(a, 1, Min(Len(a), n))

\* a variant that lets a row without a date through
KeepRowUndated(row, index, month) ==
    IF index = 0 THEN TRUE
    ELSE LET d == parseYMD(At(row, 2))
         IN  IF d = Null THEN TRUE ELSE Str(MonthKey(d)) = month

\* the predicate of truncatedRows.filter((row, index) => ...)
KeepRow(row, index, month) ==
    IF index = 0 THEN TRUE
    ELSE LET d == parseYMD(At(row, 2))
         IN  IF d = Null THEN FALSE ELSE Str(MonthKey(d)) = month

\* rows.filter over the rows at positions lo..hi, in order (halved likewise)
RECURSIVE FilterRows(_, _, _, _)
FilterRows(rows, lo, hi, month) ==
    IF lo > hi THEN <<>>
    ELSE IF lo = hi THEN (IF KeepRow(rows[lo], lo - 1, month) THEN <<rows[lo]>> ELSE <<>>)
    ELSE LET mid == (lo + hi) \div 2
         IN  FilterRows(rows, lo, mid, month) \o FilterRows(rows, mid + 1, hi, month)

\* a variant that cuts the columns and leaves short rows short
FinalizeRowNoPad(row, rIdx) ==
    LET truncated == slice(row, ColLimit)
        d == parseYMD(At(truncated, 2))
    IN  IF rIdx > 0 /\ ~Falsy(At(truncated, 2)) /\ d # Null
        THEN [truncated EXCEPT ![3] = d] ELSE truncated

\* the body of cleanedRows.map((row, rIdx) => ...)
FinalizeRow(row, rIdx) ==
    LET cut == slice(row, ColLimit)
        truncated == cut \o [i \in 1..(ColLimit - Len(cut)) |-> Null]
        d == parseYMD(truncated[3])
    IN  IF rIdx > 0 /\ ~Falsy(truncated[3]) /\ d # Null
        THEN [truncated EXCEPT ![3] = d] ELSE truncated

\* a variant that filters by month before it cuts the rows
ProcessSheetFilterFirst(sheet, month) ==
    LET cleanedRows == slice(FilterRows(sheet.data, 1, Len(sheet.data), month), RowLimit)
    IN  [name |-> sheet.name,
         data |-> [i \in 1..Len(cleanedRows) |-> FinalizeRow(cleanedRows[i], i - 1)]]

\* the body of sheets.map((sheet) => ...)
ProcessSheet(sheet, month) ==
    LET truncatedRows == slice(sheet.data, RowLimit)
        cleanedRows == FilterRows(truncatedRows, 1, Len(truncatedRows), month)
    IN  [name |-> sheet.name,
         data |-> [i \in 1..Len(cleanedRows) |-> FinalizeRow(cleanedRows[i], i - 1)]]

\* processedSheets.filter(sheet => sheet.data.length > 1)
NonEmptySheet(sheet) == Len(sheet.data) > 1

cleanRosterData(sheets, month) ==
    SelectSeq([i \in 1..Len(sheets) |-> ProcessSheet(sheets[i], month)], NonEmptySheet)

----------------------------------------------------------------------------
(* updateNames *)

\* staffList.map(row => row && row[0]).filter(not null, not undefined)
\*          .map(name => String(name).trim()).filter(name => name.length > 0)
staffFullNames(staffList) ==
    LET firsts == [i \in 1..Len(staffList) |-> At(staffList[i], 0)]
        present(c) == c.t \notin {"null", "undef"}
        trimmed == [i \in 1..Len(SelectSeq(firsts, present)) |->
                        trim(String(SelectSeq(firsts, present)[i]))]
        nonEmpty(n) == Len(n) > 0
    IN  SelectSeq(trimmed, nonEmpty)

\* the number of white-space characters s starts with
RECURSIVE LeadingSpaces(_)
LeadingSpaces(s) == IF s # <<>> /\ IsSpace(Head(s)) THEN 1 + LeadingSpaces(Tail(s)) ELSE 0

\* s.replace(/\s*\(.*?\)\s*/g, ' '): at each position, white space, an opening
\* parenthesis, the shortest text up to a closing parenthesis and the white space after
\* it become one space
RECURSIVE ReplaceParens(_)
ReplaceParens(s) ==
    IF s = <<>> THEN <<>>
    ELSE LET rest == SubSeq(s, LeadingSpaces(s) + 1, Len(s))
         IN  IF rest # <<>> /\ Head(rest) = "(" /\ \E k \in 2..Len(rest) : rest[k] = ")"
             THEN LET close == CHOOSE k \in 2..Len(rest) :
                                  rest[k] = ")" /\ \A j \in 2..(k - 1) : rest[j] # ")"
                  IN  <<" ">> \o ReplaceParens(TrimStart(SubSeq(rest, close + 1, Len(rest))))
             ELSE <<Head(s)>> \o ReplaceParens(Tail(s))

\* rosterNameStr: String(currentRosterName).trim(), the parentheses replaced, trimmed
CleanName(cell) == trim(ReplaceParens(trim(String(cell))))

ClaraCkm == <<"c", "l", "a", "r", "a", " ", "c", "k", "m">>

ClaraCheung == <<"c", "l", "a", "r", "a", " ", "c", "h", "e", "u", "n", "g">>

ClaraCheungKaMan == ClaraCheung \o <<" ", "k", "a", " ", "m", "a", "n">>

ClaraCheungWingKum == ClaraCheung \o <<" ", "w", "i", "n", "g", " ", "k", "u", "m">>

\* the indexes of the staff names that contain `sub`, case-insensitively
Containing(names, sub) == { i \in 1..Len(names) : includes(toLowerCase(names[i]), sub) }

\* the indexes of the staff names equal to `lower`, case-insensitively
Equalling(names, lower) == { i \in 1..Len(names) : toLowerCase(names[i]) = lower }

\* names.find(...): the first of a non-empty set of indexes
First(names, found) == names[CHOOSE i \in found : \A j \in found : i <= j]

\* a variant that writes the cleaned string back when nothing matches
ResolveNameWriteCleaned(cell, names) ==
    IF cell.t \in {"null", "undef"} THEN cell
    ELSE LET rosterNameStr == CleanName(cell)
             rosterNameLower == toLowerCase(rosterNameStr)
             claraMatch == Containing(names, ClaraCheungKaMan)
             claraWingMatch == Containing(names, ClaraCheungWingKum)
             exactMatch == Equalling(names, rosterNameLower)
             partialMatch == Containing(names, rosterNameLower)
         IN  IF rosterNameStr = <<>> THEN cell
             ELSE IF rosterNameLower = ClaraCkm /\ claraMatch # {}
                  THEN Str(First(names, claraMatch))
             ELSE IF rosterNameLower = ClaraCheung /\ claraWingMatch # {}
                  THEN Str(First(names, claraWingMatch))
             ELSE IF exactMatch # {} THEN Str(First(names, exactMatch))
             ELSE IF partialMatch # {} THEN Str(First(names, partialMatch))
             ELSE Str(rosterNameStr)

\* a variant that takes the first staff name containing the roster name, exact or not
ResolveNameSubstringFirst(cell, names) ==
    IF cell.t \in {"null", "undef"} THEN cell
    ELSE LET rosterNameStr == CleanName(cell)
             rosterNameLower == toLowerCase(rosterNameStr)
             claraMatch == Containing(names, ClaraCheungKaMan)
             claraWingMatch == Containing(names, ClaraCheungWingKum)
             partialMatch == Containing(names, rosterNameLower)
         IN  IF rosterNameStr = <<>> THEN cell
             ELSE IF rosterNameLower = ClaraCkm /\ claraMatch # {}
                  THEN Str(First(names, claraMatch))
             ELSE IF rosterNameLower = ClaraCheung /\ claraWingMatch # {}
                  THEN Str(First(names, claraWingMatch))
             ELSE IF partialMatch # {} THEN Str(First(names, partialMatch))
             ELSE cell

\* a variant without the two alias rules
ResolveNameNoAlias(cell, names) ==
    IF cell.t \in {"null", "undef"} THEN cell
    ELSE LET rosterNameStr == CleanName(cell)
             rosterNameLower == toLowerCase(rosterNameStr)
             exactMatch == Equalling(names, rosterNameLower)
             partialMatch == Containing(names, rosterNameLower)
         IN  IF rosterNameStr = <<>> THEN cell
             ELSE IF exactMatch # {} THEN Str(First(names, exactMatch))
             ELSE IF partialMatch # {} THEN Str(First(names, partialMatch))
             ELSE cell

\* the value newRow[5] ends with, given currentRosterName and staffFullNames
ResolveName(cell, names) ==
    IF cell.t \in {"null", "undef"} THEN cell
    ELSE LET rosterNameStr == CleanName(cell)
             rosterNameLower == toLowerCase(rosterNameStr)
             claraMatch == Containing(names, ClaraCheungKaMan)
             claraWingMatch == Containing(names, ClaraCheungWingKum)
             exactMatch == Equalling(names, rosterNameLower)
             partialMatch == Containing(names, rosterNameLower)
         IN  IF rosterNameStr = <<>> THEN cell
             ELSE IF rosterNameLower = ClaraCkm /\ claraMatch # {}
                  THEN Str(First(names, claraMatch))
             ELSE IF rosterNameLower = ClaraCheung /\ claraWingMatch # {}
                  THEN Str(First(names, claraWingMatch))
             ELSE IF exactMatch # {} THEN Str(First(names, exactMatch))
             ELSE IF partialMatch # {} THEN Str(First(names, partialMatch))
             ELSE cell

\* the body of sheet.data.map((row, rIdx) => ...): a row too short to have an index-5
\* cell is copied as it is
UpdateRow(row, rIdx, names) ==
    IF rIdx = 0 \/ Len(row) < 6 THEN row
    ELSE [row EXCEPT ![6] = ResolveName(row[6], names)]

updateNames(sheets, staffList) ==
    LET names == staffFullNames(staffList)
    IN  [i \in 1..Len(sheets) |->
            [name |-> sheets[i].name,
             data |-> [r \in 1..Len(sheets[i].data) |->
                          UpdateRow(sheets[i].data[r], r - 1, names)]]]

----------------------------------------------------------------------------
(* parseExcel and exportToExcel, up to the codec *)

\* rosterTabPattern.test(name.trim()), the pattern being /^\d{8}$/
IsRosterTab(name) ==
    LET t == trim(name) IN Len(t) = 8 /\ \A i \in 1..Len(t) : IsDigit(t[i])

\* the sheets parseExcel resolves with, given the tabs the codec decoded from the file
\* and whether the file's name ends in .csv
TargetSheets(tabs, isCsv) ==
    LET rosterTab(sheet) == IsRosterTab(sheet.name)
        hasRosterTabs == \E i \in 1..Len(tabs) : IsRosterTab(tabs[i].name)
    IN  IF hasRosterTabs /\ ~isCsv THEN SelectSeq(tabs, rosterTab) ELSE tabs

\* a variant of the export row that skips the re-parse and hands every row over as it is
ExportRowNoReparse(row, rIdx) ==
    row

\* the body of sheet.data.map((row, rIdx) => ...) in exportToExcel
ExportRow(row, rIdx) ==
    IF rIdx = 0 \/ Falsy(At(row, 2)) THEN row
    ELSE LET d == parseYMD(row[3])
         IN  IF d # Null THEN [row EXCEPT ![3] = d] ELSE row

\* numericData of every sheet: what exportToExcel hands to aoa_to_sheet
NumericData(sheets) ==
    [i \in 1..Len(sheets) |->
        [name |-> sheets[i].name,
         data |-> [r \in 1..Len(sheets[i].data) |-> ExportRow(sheets[i].data[r], r - 1)]]]

----------------------------------------------------------------------------
(* The App component's state after construction (useState initial values) *)

NoFile == [present |-> FALSE]

NoJob == [roster |-> NoFile, staff |-> NoFile]

NoExport == [made |-> FALSE]

AppInit ==
    /\ rosterFile = NoFile
    /\ staffFile = NoFile
    /\ processing = FALSE
    /\ step = "upload"
    /\ cleanedRoster = <<>>
    /\ majorityMonth = Null
    /\ activeTab = 0
    /\ pc = "idle"
    /\ job = NoJob
    /\ rosterSheets = <<>>
    /\ stages = <<>>
    /\ outcome = "none"
    /\ exported = NoExport
    /\ edits = 0

\* the two behaviours a host's Date(string) parser is given for a string outside the
\* standard format: no date, or some date
NativeOutcomes == {InvalidDate, DateV(2024, 2, 1)}

----------------------------------------------------------------------------
(* parseYMD on its own *)

MaxMonth == 13

MaxDay == 32

Years == {1900, 2000, 2023, 2024}

Seps == {"/", "-"}

\* the string yyyy<sep>mm<sep>dd of three numbers
FmtYMD(y, m, d, sep) ==
    padStart(DigitsOf(y), 4) \o <<sep>> \o padStart(DigitsOf(m), 2) \o <<sep>>
        \o padStart(DigitsOf(d), 2)

OtherCells ==
    { Null, Undefined, Num(0), Num(5), DateV(2024, 1, 29), Str(<<>>), Str(<<" ">>),
      Str(<<"a", "b", "c">>), Str(<<"T", "B", "D">>),
      Str(<<"2", "0", "2", "4", "/", "0", "3">>),
      Str(<<"2", "0", "2", "4", "/", "x", "x", "/", "0", "5">>),
      Str(<<"a", "/", "b", "/", "c">>),
      Str(<<" ", "2", "0", "2", "4", "/", "0", "3", "/", "0", "5", " ">>),
      Str(<<"2", "0", "2", "4", "/", "3", "/", "5">>),
      Str(<<"2", "4", "/", "0", "2", "/", "2", "9">>),
      Str(<<"2", "0", "2", "4", "/", "0", "3", "/", "0", "5", "/", "1">>) }

ParseInputs ==
    { [fn |-> "parseYMD", kind |-> "ymd", val |-> Str(FmtYMD(y, m, d, sep)),
       y |-> y, m |-> m, d |-> d] :
         y \in Years, m \in 0..MaxMonth, d \in 0..MaxDay, sep \in Seps }
    \cup { [fn |-> "parseYMD", kind |-> "other", val |-> c] : c \in OtherCells }

InitParse ==
    /\ nativeResult \in NativeOutcomes
    /\ input \in ParseInputs
    /\ output = Null
    /\ called = FALSE
    /\ AppInit

CallParseYMD ==
    /\ ~called
    /\ input.fn = "parseYMD"
    /\ output' = parseYMD(input.val)
    /\ called' = TRUE
    /\ UNCHANGED <<nativeResult, input, appVars>>

SpecParse == InitParse /\ [][CallParseYMD]_vars

\* a yyyy-mm-dd triple that names a day of the calendar
RealDate(y, m, d) == m \in 1..12 /\ d \in 1..DaysInMonth(y, m - 1)

\* C3: parseYMD of a three-component string is "no date" when the month is above 12 or
\* the day is past the end of the month, and is the date of the string's own year, month
\* and day when the string names a real date.
C3_OnlyRealDates ==
    (called /\ input.fn = "parseYMD" /\ input.kind = "ymd") =>
        /\ (input.m > 12 \/ (input.m \in 1..12 /\ input.d > DaysInMonth(input.y, input.m - 1)))
              => output = Null
        /\ RealDate(input.y, input.m, input.d)
              => output = DateV(input.y, input.m - 1, input.d)

\* the half of C3 that the code keeps: a real date parses to its own components
C3_RealDatesParse ==
    (called /\ input.fn = "parseYMD" /\ input.kind = "ymd"
        /\ RealDate(input.y, input.m, input.d))
        => output = DateV(input.y, input.m - 1, input.d)

\* what the code does with the rest: the day count carries into the following months
C3_Rollover ==
    (called /\ input.fn = "parseYMD" /\ input.val = Str(FmtYMD(2023, 2, 29, "/")))
        => output = DateV(2023, 2, 1)

----------------------------------------------------------------------------
(* Workbooks for findMajorityMonth and cleanRosterData.  Column 0 of a data row holds   *)
(* the row's index in its sheet, which both services carry along untouched, so that a   *)
(* row of the result can be traced to the row it came from.                             *)

MaxRows == 4

MaxExtra == 2

Mar05 == Str(FmtYMD(2024, 3, 5, "/"))

Apr17 == Str(FmtYMD(2024, 4, 17, "-"))

Tbd == Str(<<"T", "B", "D">>)

\* the date cells of the rows that are combined freely
BaseDates == {Mar05, Apr17, Tbd}

\* the date cells that are tried one row at a time
SpecialDates ==
    { Null, Num(5), DateV(2024, 2, 9), Str(FmtYMD(2024, 3, 32, "/")),
      Str(FmtYMD(2024, 15, 1, "-")), Str(<<"2", "0", "2", "4", "/", "0", "3">>) }

Widths == {2, 3, 8, 10}

\* a data row of w cells: its index, a shift, its date cell, then filler
DataRow(index, date, w) ==
    [c \in 1..w |-> IF c = 1 THEN Num(index)
                    ELSE IF c = 2 THEN Str(<<"A", "M">>)
                    ELSE IF c = 3 THEN date
                    ELSE IF c = 6 THEN Str(<<"A", "n", "n">>)
                    ELSE IF c > ColLimit THEN Str(<<"x">>)
                    ELSE Null]

PlainHeader ==
    <<Str(<<"N", "o">>), Str(<<"S", "h", "i", "f", "t">>), Str(<<"D", "a", "t", "e">>),
      Null, Null, Str(<<"N", "a", "m", "e">>), Null, Null>>

Headers ==
    { PlainHeader,
      <<Str(<<"N", "o">>), Null, Str(FmtYMD(2024, 4, 1, "/"))>>,
      <<Null, Null, DateV(2024, 2, 1), Null, Null, Null, Null, Null, Str(<<"x">>)>> }

SheetName(i) == DigitsOf(20240300 + i)

\* a sheet of the given header and date cells, every data row 8 cells wide
SheetOf(i, header, dates) ==
    [name |-> SheetName(i),
     data |-> <<header>> \o [k \in 1..Len(dates) |-> DataRow(k, dates[k], ColLimit)]]

RECURSIVE SeqsUpTo(_, _)
SeqsUpTo(S, n) ==
    IF n = 0 THEN {<<>>}
    ELSE LET shorter == SeqsUpTo(S, n - 1)
         IN  shorter \cup { Append(q, x) : q \in { r \in shorter : Len(r) = n - 1 }, x \in S }

\* one or two sheets holding up to MaxRows freely combined rows between them
BaseWorkbooks ==
    { <<SheetOf(1, h, dates)>> : h \in Headers, dates \in SeqsUpTo(BaseDates, MaxRows) }
    \cup
    UNION { { <<SheetOf(1, h, SubSeq(dates, 1, k)), SheetOf(2, h, SubSeq(dates, k + 1, Len(dates)))>> :
                k \in 0..Len(dates) } :
            h \in Headers, dates \in SeqsUpTo(BaseDates, MaxRows) }

\* one sheet with one data row of a special date cell or width, alone or after a March row
SpecialWorkbooks ==
    { <<[name |-> SheetName(1), data |-> <<h, DataRow(1, c, w)>>]>> :
        h \in Headers, c \in SpecialDates \cup BaseDates, w \in Widths }
    \cup
    { <<[name |-> SheetName(1), data |-> <<h, DataRow(1, Mar05, ColLimit), DataRow(2, c, w)>>]>> :
        h \in Headers, c \in SpecialDates, w \in Widths }
    \cup { <<>>, <<[name |-> SheetName(1), data |-> <<>>]>> }

\* one sheet around the row limit: rows before index RowLimit - 1 carry `fill`, the
\* rows from there on carry `tail`
LongWorkbooks ==
    { <<[name |-> SheetName(1),
         data |-> <<h>> \o [k \in 1..n |->
                     DataRow(k, IF k < RowLimit - 1 THEN fill ELSE tail, ColLimit)]]>> :
        h \in Headers, n \in (RowLimit - 2)..(RowLimit + MaxExtra),
        fill \in BaseDates, tail \in BaseDates }

Workbooks == BaseWorkbooks \cup SpecialWorkbooks \cup LongWorkbooks

Targets == { Str(<<"2", "0", "2", "4", "-", "0", "3">>), Str(<<"2", "0", "2", "4", "-", "0", "4">>),
             Str(<<"2", "0", "2", "4", "-", "3">>) }

InitMonth ==
    /\ nativeResult \in NativeOutcomes
    /\ input \in { [fn |-> "findMajorityMonth", sheets |-> wb] : wb \in Workbooks }
    /\ output = Null
    /\ called = FALSE
    /\ AppInit

CallFindMajorityMonth ==
    /\ ~called
    /\ input.fn = "findMajorityMonth"
    /\ output' = findMajorityMonth(input.sheets)
    /\ called' = TRUE
    /\ UNCHANGED <<nativeResult, input, appVars>>

SpecMonth == InitMonth /\ [][CallFindMajorityMonth]_vars

InitClean ==
    /\ nativeResult \in NativeOutcomes
    /\ input \in { [fn |-> "cleanRosterData", sheets |-> wb, month |-> t] :
                     wb \in Workbooks, t \in Targets }
    /\ output = Null
    /\ called = FALSE
    /\ AppInit

CallCleanRosterData ==
    /\ ~called
    /\ input.fn = "cleanRosterData"
    /\ output' = cleanRosterData(input.sheets, input.month)
    /\ called' = TRUE
    /\ UNCHANGED <<nativeResult, input, appVars>>

SpecClean == InitClean /\ [][CallCleanRosterData]_vars

----------------------------------------------------------------------------
(* Properties of cleanRosterData *)

\* the sheet of the argument that a sheet of the result came from (tab names are unique)
SourceOf(o) == CHOOSE k \in 1..Len(input.sheets) : input.sheets[k].name = o.name

HasSource(o) == \E k \in 1..Len(input.sheets) : input.sheets[k].name = o.name

\* the row of the argument that row r of result sheet o came from: the header, or the
\* data row whose index column 0 records
SourceRow(o, r) ==
    LET src == input.sheets[SourceOf(o)].data
    IN  IF r = 1 THEN src[1] ELSE src[o.data[r][1].n + 1]

\* the index-2 cell parses to a date of the month
InMonth(row, month) ==
    LET d == parseYMD(At(row, 2)) IN d # Null /\ Str(MonthKey(d)) = month

Parses(row) == parseYMD(At(row, 2)) # Null

CleanCalled == called /\ input.fn = "cleanRosterData"

\* C1: a data row of the result comes from a data row whose index-2 cell parses to a date
\* of the target month (so every undated or other-month row is dropped), and row 0 of
\* every sheet of the result is the header of its source sheet, whatever it holds.
C1_MonthFilter ==
    CleanCalled =>
        \A i \in 1..Len(output) :
            LET o == output[i] IN
            /\ HasSource(o)
            /\ LET src == input.sheets[SourceOf(o)].data IN
               /\ \A c \in 1..Min(Len(src[1]), ColLimit) : o.data[1][c] = src[1][c]
               /\ \A r \in 2..Len(o.data) :
                    /\ o.data[r][1].n \in 1..(Len(src) - 1)
                    /\ InMonth(src[o.data[r][1].n + 1], input.month)
               /\ \A k \in 2..Len(src) :
                    ~InMonth(src[k], input.month)
                        => \A r \in 2..Len(o.data) : o.data[r][1].n # k - 1

\* a result sheet that kept a row, from a sheet with an undated row, a row of another
\* month and a header whose own index-2 cell is a date of another month
C1_Witness ==
    /\ CleanCalled
    /\ \E i \in 1..Len(output) :
          LET src == input.sheets[SourceOf(output[i])].data IN
          /\ Len(output[i].data) > 1
          /\ \E a, b \in 2..Len(src) :
                ~Parses(src[a]) /\ Parses(src[b]) /\ ~InMonth(src[b], input.month)
          /\ Parses(src[1]) /\ ~InMonth(src[1], input.month)

\* C4: every row of the result has exactly 8 cells, the first 8 of its source row
\* padded with null, and the index-2 cell of every data row is a Date.
C4_EightCellsAndDate ==
    CleanCalled =>
        \A i \in 1..Len(output) : \A r \in 1..Len(output[i].data) :
            LET row == output[i].data[r]
                from == SourceRow(output[i], r)
            IN  /\ Len(row) = 8
                /\ \A c \in 1..8 :
                      (r = 1 \/ c # 3) => row[c] = (IF c <= Len(from) THEN from[c] ELSE Null)
                /\ r > 1 => row[3].t = "date"

\* a result with a row cut down from more than 8 cells and a row padded up from fewer
C4_Witness ==
    /\ CleanCalled
    /\ \E i \in 1..Len(output) :
          /\ \E r \in 2..Len(output[i].data) : Len(SourceRow(output[i], r)) > 8
          /\ \E r \in 1..Len(output[i].data) : Len(SourceRow(output[i], r)) < 8
          /\ \E r \in 2..Len(output[i].data) : SourceRow(output[i], r)[3].t = "str"

\* the data rows of a sheet, among those at index 1..71, that are of the month
KeptIndexes(data, month) ==
    { k \in 1..Min(Len(data) - 1, RowLimit - 1) : InMonth(data[k + 1], month) }

\* C10: only rows at index below 72 reach the result: a sheet of the result holds
\* exactly the matching rows among its source's first 71 data rows, and a sheet with
\* no such row is absent, whatever rows of the month lie at index 72 and beyond.
C10_RowCeiling ==
    CleanCalled =>
        /\ \A i \in 1..Len(output) : \A r \in 2..Len(output[i].data) :
              output[i].data[r][1].n < RowLimit
        /\ \A k \in 1..Len(input.sheets) :
              LET kept == KeptIndexes(input.sheets[k].data, input.month)
                  outs == { i \in 1..Len(output) : output[i].name = input.sheets[k].name }
              IN  IF kept = {} THEN outs = {}
                  ELSE /\ Cardinality(outs) = 1
                       /\ \A i \in outs :
                             { output[i].data[r][1].n : r \in 2..Len(output[i].data) } = kept

\* a sheet of more than 72 rows with a row of the month at index 72 or beyond and a
\* filtered-out row before it, which still reaches the result
C10_Witness ==
    /\ CleanCalled
    /\ \E k \in 1..Len(input.sheets) :
          LET data == input.sheets[k].data IN
          /\ \E j \in (RowLimit + 1)..Len(data) : InMonth(data[j], input.month)
          /\ \E j \in 2..RowLimit : ~InMonth(data[j], input.month)
          /\ \E i \in 1..Len(output) : output[i].name = input.sheets[k].name

----------------------------------------------------------------------------
(* Properties of findMajorityMonth *)

MonthCalled == called /\ input.fn = "findMajorityMonth"

\* <<sheet, row, month key>> for every data row whose index-2 cell parses, rows counted
\* from 1 for the header
DatedPlaces ==
    UNION { { <<i, r, MonthKey(parseYMD(At(input.sheets[i].data[r], 2)))>> :
                r \in { q \in 2..Len(input.sheets[i].data) : Parses(input.sheets[i].data[q]) } } :
            i \in 1..Len(input.sheets) }

PlacesOf(places, key) == { p \in places : p[3] = key }

CountOf(places, key) == Cardinality(PlacesOf(places, key))

KeysOf(places) == { p[3] : p \in places }

\* the keys whose count is the maximum
TopKeys(places) ==
    LET keys == KeysOf(places)
    IN  { k \in keys : \A j \in keys : CountOf(places, j) <= CountOf(places, k) }

\* scan order: sheets in workbook order, rows in row order
Before(p, q) == p[1] < q[1] \/ (p[1] = q[1] /\ p[2] < q[2])

\* where a key is first met in the scan
FirstPlace(places, key) ==
    LET own == PlacesOf(places, key) IN CHOOSE p \in own : \A q \in own : ~Before(q, p)

\* where a top key's count reaches the maximum, i.e. its last occurrence
ReachPlace(places, key) ==
    LET own == PlacesOf(places, key) IN CHOOSE p \in own : \A q \in own : ~Before(p, q)

\* C7: the result is null exactly when no data row of any sheet has a parseable index-2
\* cell; otherwise it is a month key whose number of data rows is the largest of any key
\* (row 0 of each sheet is not counted).
C7_MostFrequentMonth ==
    MonthCalled =>
        LET places == DatedPlaces IN
        /\ output = Null <=> places = {}
        /\ output # Null =>
              /\ output.t = "str"
              /\ output.s \in KeysOf(places)
              /\ \A k \in KeysOf(places) : CountOf(places, k) <= CountOf(places, output.s)

\* two months with different counts, the less frequent one met first, under a header
\* whose own index-2 cell is a date
C7_Witness ==
    /\ MonthCalled
    /\ output # Null
    /\ LET places == DatedPlaces IN
       \E k \in KeysOf(places) :
          /\ k \notin TopKeys(places)
          /\ \A j \in KeysOf(places) : ~Before(FirstPlace(places, j), FirstPlace(places, k))
    /\ \E k \in 1..Len(input.sheets) : Parses(input.sheets[k].data[1])

\* C8 as stated: among the keys that tie for the highest count, the result is the one
\* whose count reaches the maximum first in the scan.
C8_FirstToReachMax ==
    (MonthCalled /\ output # Null) =>
        LET places == DatedPlaces
            top == TopKeys(places)
        IN  /\ output.s \in top
            /\ \A key \in top :
                  ~Before(ReachPlace(places, key), ReachPlace(places, output.s))

\* C8 amended: among the keys that tie for the highest count, the result is the one
\* met first in the scan (sheets in workbook order, rows in row order), so the result
\* is a function of the workbook.
C8_EarliestEncountered ==
    (MonthCalled /\ output # Null) =>
        LET places == DatedPlaces
            top == TopKeys(places)
        IN  /\ output.s \in top
            /\ \A key \in top :
                  ~Before(FirstPlace(places, key), FirstPlace(places, output.s))

\* a tie in which the key met first is not the key that reaches the maximum first
C8_Witness ==
    /\ MonthCalled
    /\ output # Null
    /\ LET places == DatedPlaces
           top == TopKeys(places)
       IN  /\ Cardinality(top) > 1
           /\ \E key \in top :
                 /\ Before(ReachPlace(places, key), ReachPlace(places, output.s))
                 /\ Before(FirstPlace(places, output.s), FirstPlace(places, key))

----------------------------------------------------------------------------
(* updateNames on its own: one sheet whose header and one data row carry the roster    *)
(* name at index 5, followed by a row of three cells, and a staff list of up to        *)
(* MaxStaff rows                                                                        *)

MaxStaff == 2

JSmith == <<"J", ".", " ", "S", "m", "i", "t", "h">>

JaneSmith == <<"J", "a", "n", "e", " ", "S", "m", "i", "t", "h">>

Am == <<" ", "(", "a", "m", ")">>

RosterNames ==
    { Null, Num(7), Str(JSmith), Str(JSmith \o Am), Str(JaneSmith \o Am \o <<" ">>),
      Str(toLowerCase(JaneSmith)), Str(<<"J", "a", "n", "e">>),
      Str(<<"J", "a", "n", "e", "(", "x", ")", "S", "m", "i", "t", "h", " ", "(", "p", "m">>),
      Str(Am), Str(<<"C", "l", "a", "r", "a", " ", "C", "K", "M">>),
      Str(ClaraCkm \o Am), Str(<<"C", "l", "a", "r", "a", " ", "C", "h", "e", "u", "n", "g">>),
      Str(<<"Z", "e", "d">>) }

StaffRows ==
    { <<>>, <<Null, Str(JaneSmith)>>, <<Str(<<" ", " ">>)>>, <<Num(7)>>,
      <<Str(JaneSmith)>>, <<Str(<<"J", "A", "N", "E", " ", "S", "M", "I", "T", "H">>)>>,
      <<Str(<<"M", "a", "r", "y", " ">> \o JaneSmith \o <<" ">>), Str(<<"x">>)>>,
      <<Str(<<"C", "l", "a", "r", "a", " ", "C", "K", "M">>)>>,
      <<Str(<<"C", "l", "a", "r", "a", " ", "C", "h", "e", "u", "n", "g">>)>>,
      <<Str(<<"C", "l", "a", "r", "a", " ", "C", "h", "e", "u", "n", "g", " ", "K", "a",
              " ", "M", "a", "n">>)>>,
      <<Str(<<"D", "r", " ">> \o ClaraCheungWingKum)>> }

NameSheet(cell) ==
    [name |-> SheetName(1),
     data |-> << [c \in 1..ColLimit |-> IF c = 6 THEN cell ELSE Null],
                 [c \in 1..ColLimit |-> IF c = 3 THEN DateV(2024, 2, 5)
                                        ELSE IF c = 6 THEN cell ELSE Null],
                 <<Num(2), Null, DateV(2024, 2, 6)>> >>]

InitNames ==
    /\ nativeResult = InvalidDate
    /\ input \in { [fn |-> "updateNames", sheets |-> <<NameSheet(c)>>, staff |-> st] :
                     c \in RosterNames, st \in SeqsUpTo(StaffRows, MaxStaff) }
    /\ output = Null
    /\ called = FALSE
    /\ AppInit

CallUpdateNames ==
    /\ ~called
    /\ input.fn = "updateNames"
    /\ output' = updateNames(input.sheets, input.staff)
    /\ called' = TRUE
    /\ UNCHANGED <<nativeResult, input, appVars>>

SpecNames == InitNames /\ [][CallUpdateNames]_vars

NamesCalled == called /\ input.fn = "updateNames"

\* the roster name cell before and after, and the staff names in list order
NameBefore == input.sheets[1].data[2][6]

NameAfter == output[1].data[2][6]

\* the cleaned roster name in lower case, for a cell that has one
Cleaned == CleanName(NameBefore)

HasName == NameBefore.t \notin {"null", "undef"} /\ Cleaned # <<>>

\* an alias rule applies: the cleaned name is an alias and a staff name holds its target
AliasApplies(names) ==
    \/ toLowerCase(Cleaned) = ClaraCkm
          /\ \E i \in 1..Len(names) : includes(toLowerCase(names[i]), ClaraCheungKaMan)
    \/ toLowerCase(Cleaned) = ClaraCheung
          /\ \E i \in 1..Len(names) : includes(toLowerCase(names[i]), ClaraCheungWingKum)

IsExact(n) == toLowerCase(n) = toLowerCase(Cleaned)

IsPartial(n) == includes(toLowerCase(n), toLowerCase(Cleaned))

\* the first name of the list with the property is names[i]
FirstWith(names, i, P(_)) == P(names[i]) /\ \A j \in 1..(i - 1) : ~P(names[j])

\* what exact-then-substring matching gives: the first exact match, else the first
\* staff name containing the cleaned name, else the cell as it was
GenericResult(names, after) ==
    IF \E i \in 1..Len(names) : IsExact(names[i])
    THEN \E i \in 1..Len(names) : FirstWith(names, i, IsExact) /\ after = Str(names[i])
    ELSE IF \E i \in 1..Len(names) : IsPartial(names[i])
    THEN \E i \in 1..Len(names) : FirstWith(names, i, IsPartial) /\ after = Str(names[i])
    ELSE after = NameBefore

\* C2 as stated: a name that matches no alias rule and no staff name, exactly or as a
\* substring, is left as the cleaned string.
C2_UnmatchedIsCleaned ==
    LET names == staffFullNames(input.staff) IN
    (NamesCalled /\ HasName /\ ~AliasApplies(names)
        /\ \A i \in 1..Len(names) : ~IsPartial(names[i]))
        => NameAfter = Str(Cleaned)

\* C2 amended: such a name cell is left exactly as it was, annotation included.
C2_UnmatchedIsUnchanged ==
    LET names == staffFullNames(input.staff) IN
    (NamesCalled /\ HasName /\ ~AliasApplies(names)
        /\ \A i \in 1..Len(names) : ~IsPartial(names[i]))
        => NameAfter = NameBefore

\* an annotated name that matches nothing in a staff list that has names
C2_Witness ==
    LET names == staffFullNames(input.staff) IN
    /\ NamesCalled /\ HasName /\ ~AliasApplies(names)
    /\ \A i \in 1..Len(names) : ~IsPartial(names[i])
    /\ Len(names) > 0
    /\ NameBefore # Str(Cleaned)

\* C5 as stated: whenever a staff name equals the cleaned name, the cell becomes the
\* first such name; the first staff name containing it is used only when none equals it.
C5_ExactFirst ==
    LET names == staffFullNames(input.staff) IN
    (NamesCalled /\ HasName) =>
        /\ (\E i \in 1..Len(names) : IsExact(names[i]))
              => \E i \in 1..Len(names) : FirstWith(names, i, IsExact) /\ NameAfter = Str(names[i])
        /\ (\E i \in 1..Len(names) : NameAfter = Str(names[i]) /\ ~IsExact(names[i]))
              => \A i \in 1..Len(names) : ~IsExact(names[i])

\* C5 amended: the same, for a name to which no alias rule applies.
C5_ExactFirstUnlessAlias ==
    LET names == staffFullNames(input.staff) IN
    (NamesCalled /\ HasName /\ ~AliasApplies(names)) =>
        /\ (\E i \in 1..Len(names) : IsExact(names[i]))
              => \E i \in 1..Len(names) : FirstWith(names, i, IsExact) /\ NameAfter = Str(names[i])
        /\ (\E i \in 1..Len(names) : NameAfter = Str(names[i]) /\ ~IsExact(names[i]))
              => /\ \A i \in 1..Len(names) : ~IsExact(names[i])
                 /\ \E i \in 1..Len(names) :
                       FirstWith(names, i, IsPartial) /\ NameAfter = Str(names[i])

\* a staff name that only contains the cleaned name stands before one that equals it
C5_Witness ==
    LET names == staffFullNames(input.staff) IN
    /\ NamesCalled /\ HasName /\ ~AliasApplies(names)
    /\ \E i, j \in 1..Len(names) :
          i < j /\ IsPartial(names[i]) /\ ~IsExact(names[i]) /\ IsExact(names[j])

----------------------------------------------------------------------------
(* The App component: file selection, startProcessing with its two awaits, review,     *)
(* export and reset.  A file is what the codec decodes from it: unreadable, or a list   *)
(* of tabs.                                                                              *)

MaxEdits == 1

Corrupt == [present |-> TRUE, csv |-> FALSE, corrupt |-> TRUE, tabs |-> <<>>]

Book(csv, tabs) == [present |-> TRUE, csv |-> csv, corrupt |-> FALSE, tabs |-> tabs]

NotesTab == [name |-> <<"N", "o", "t", "e", "s">>, data |-> << <<Str(<<"m", "e", "m", "o">>)>> >>]

MarchTabs ==
    << SheetOf(1, PlainHeader, <<Mar05, Mar05>>), NotesTab,
       SheetOf(101, PlainHeader, <<Mar05, Apr17>>) >>

\* a sheet whose only dated rows lie at index RowLimit and beyond
LateTab ==
    [name |-> SheetName(1),
     data |-> <<PlainHeader>> \o [k \in 1..(RowLimit + 1) |->
                 DataRow(k, IF k < RowLimit THEN Tbd ELSE Mar05, ColLimit)]]

RosterFiles ==
    { Book(FALSE, MarchTabs), Book(TRUE, MarchTabs), Corrupt, Book(FALSE, <<>>),
      Book(FALSE, <<SheetOf(1, PlainHeader, <<Tbd>>)>>), Book(FALSE, <<LateTab>>) }

StaffFiles ==
    { Book(TRUE, << [name |-> <<"S", "h", "e", "e", "t", "1">>,
                     data |-> << <<Str(<<"N", "a", "m", "e">>)>>,
                                 <<Str(<<"A", "n", "n", " ", "L", "e", "e">>)>>,
                                 <<Str(JaneSmith)>> >>] >>),
      Corrupt, Book(FALSE, <<>>) }

EditCols == {0, 2, 5}

EditValues == { <<>>, <<"x">>, FmtYMD(2024, 5, 1, "-") }

AllStages == <<"load", "staff", "analyze", "clean", "resolve">>

Init ==
    /\ nativeResult \in NativeOutcomes
    /\ input = Null
    /\ output = Null
    /\ called = FALSE
    /\ AppInit

handleRosterUpload ==
    /\ step = "upload"
    /\ \E f \in RosterFiles : rosterFile' = f
    /\ UNCHANGED <<nativeResult, fnVars, staffFile, processing, step, cleanedRoster,
                   majorityMonth, activeTab, pc, job, rosterSheets, stages, outcome,
                   exported, edits>>

handleStaffUpload ==
    /\ step = "upload"
    /\ \E f \in StaffFiles : staffFile' = f
    /\ UNCHANGED <<nativeResult, fnVars, rosterFile, processing, step, cleanedRoster,
                   majorityMonth, activeTab, pc, job, rosterSheets, stages, outcome,
                   exported, edits>>

\* the click on "Clean & Match Names" up to the first await
startProcessing ==
    /\ step = "upload"
    /\ ~processing
    /\ rosterFile.present /\ staffFile.present
    /\ processing' = TRUE
    /\ job' = [roster |-> rosterFile, staff |-> staffFile]
    /\ pc' = "awaitRoster"
    /\ rosterSheets' = <<>>
    /\ stages' = <<>>
    /\ outcome' = "running"
    /\ UNCHANGED <<nativeResult, fnVars, rosterFile, staffFile, step, cleanedRoster,
                   majorityMonth, activeTab, exported, edits>>

\* how a run leaves startProcessing without a result: the finally block clears the flag
Stop(how, done) ==
    /\ processing' = FALSE
    /\ pc' = "idle"
    /\ job' = NoJob
    /\ rosterSheets' = <<>>
    /\ stages' = done
    /\ outcome' = how
    /\ UNCHANGED <<nativeResult, fnVars, rosterFile, staffFile, step, cleanedRoster,
                   activeTab, exported, edits>>

\* parseExcel(rosterFile) rejects
RosterLoadFails ==
    /\ pc = "awaitRoster"
    /\ job.roster.corrupt
    /\ Stop("loadFailed", stages)
    /\ UNCHANGED majorityMonth

\* rosterSheets.length === 0
NoRosterTabs ==
    /\ pc = "awaitRoster"
    /\ ~job.roster.corrupt
    /\ TargetSheets(job.roster.tabs, job.roster.csv) = <<>>
    /\ Stop("noTabs", Append(stages, "load"))
    /\ UNCHANGED majorityMonth

\* parseExcel(rosterFile) resolves with sheets; the run goes on to await the staff file
RosterLoaded ==
    /\ pc = "awaitRoster"
    /\ ~job.roster.corrupt
    /\ TargetSheets(job.roster.tabs, job.roster.csv) # <<>>
    /\ rosterSheets' = TargetSheets(job.roster.tabs, job.roster.csv)
    /\ stages' = Append(stages, "load")
    /\ pc' = "awaitStaff"
    /\ UNCHANGED <<nativeResult, fnVars, rosterFile, staffFile, processing, step,
                   cleanedRoster, majorityMonth, activeTab, job, outcome, exported, edits>>

\* parseExcel(staffFile) rejects
StaffLoadFails ==
    /\ pc = "awaitStaff"
    /\ job.staff.corrupt
    /\ Stop("loadFailed", stages)
    /\ UNCHANGED majorityMonth

\* staffSheets[0]?.data || []
StaffDataOf(file) ==
    LET staffSheets == TargetSheets(file.tabs, file.csv)
    IN  IF Len(staffSheets) > 0 THEN staffSheets[1].data ELSE <<>>

\* findMajorityMonth gives null
NoMajorityMonth ==
    /\ pc = "awaitStaff"
    /\ ~job.staff.corrupt
    /\ findMajorityMonth(rosterSheets) = Null
    /\ Stop("noMonth", stages \o <<"staff", "analyze">>)
    /\ UNCHANGED majorityMonth

\* a variant that goes on to the review although cleaning left nothing
EmptyAfterCleaningNoReturn ==
    /\ pc = "awaitStaff"
    /\ ~job.staff.corrupt
    /\ findMajorityMonth(rosterSheets) # Null
    /\ cleanRosterData(rosterSheets, findMajorityMonth(rosterSheets)) = <<>>
    /\ majorityMonth' = findMajorityMonth(rosterSheets)
    /\ cleanedRoster' = <<>>
    /\ activeTab' = 0
    /\ step' = "verify"
    /\ processing' = FALSE
    /\ pc' = "idle"
    /\ job' = NoJob
    /\ rosterSheets' = <<>>
    /\ stages' = stages \o <<"staff", "analyze", "clean">>
    /\ outcome' = "empty"
    /\ edits' = 0
    /\ UNCHANGED <<nativeResult, fnVars, rosterFile, staffFile, exported>>

\* cleaned.length === 0, after setMajorityMonth(month)
EmptyAfterCleaning ==
    /\ pc = "awaitStaff"
    /\ ~job.staff.corrupt
    /\ findMajorityMonth(rosterSheets) # Null
    /\ cleanRosterData(rosterSheets, findMajorityMonth(rosterSheets)) = <<>>
    /\ majorityMonth' = findMajorityMonth(rosterSheets)
    /\ Stop("empty", stages \o <<"staff", "analyze", "clean">>)

\* the run reaches setStep('verify')
ProcessingSucceeds ==
    /\ pc = "awaitStaff"
    /\ ~job.staff.corrupt
    /\ LET month == findMajorityMonth(rosterSheets)
           cleaned == cleanRosterData(rosterSheets, month)
       IN  /\ month # Null
           /\ cleaned # <<>>
           /\ majorityMonth' = month
           /\ cleanedRoster' = updateNames(cleaned, StaffDataOf(job.staff))
    /\ activeTab' = 0
    /\ step' = "verify"
    /\ processing' = FALSE
    /\ pc' = "idle"
    /\ job' = NoJob
    /\ rosterSheets' = <<>>
    /\ stages' = stages \o <<"staff", "analyze", "clean", "resolve">>
    /\ outcome' = "ok"
    /\ edits' = 0
    /\ UNCHANGED <<nativeResult, fnVars, rosterFile, staffFile, exported>>

\* the tab buttons of the review
setActiveTab ==
    /\ step = "verify"
    /\ \E idx \in 0..(Len(cleanedRoster) - 1) : activeTab' = idx
    /\ UNCHANGED <<nativeResult, fnVars, rosterFile, staffFile, processing, step,
                   cleanedRoster, majorityMonth, pc, job, rosterSheets, stages, outcome,
                   exported, edits>>

\* typing into a cell of the sheet on display
handleCellChange ==
    /\ step = "verify"
    /\ edits < MaxEdits
    /\ activeTab + 1 \in 1..Len(cleanedRoster)
    /\ \E rowIndex \in 0..(Len(cleanedRoster[activeTab + 1].data) - 1),
          colIndex \in EditCols, value \in EditValues :
          /\ colIndex < Len(cleanedRoster[activeTab + 1].data[rowIndex + 1])
          /\ cleanedRoster' =
                [cleanedRoster EXCEPT ![activeTab + 1].data[rowIndex + 1][colIndex + 1] =
                    Str(value)]
    /\ edits' = edits + 1
    /\ UNCHANGED <<nativeResult, fnVars, rosterFile, staffFile, processing, step,
                   majorityMonth, activeTab, pc, job, rosterSheets, stages, outcome,
                   exported>>

\* the Export button of the review
handleExport ==
    /\ step = "verify"
    /\ exported' = [made |-> TRUE, data |-> NumericData(cleanedRoster), from |-> step,
                    stages |-> stages, outcome |-> outcome]
    /\ step' = "complete"
    /\ UNCHANGED <<nativeResult, fnVars, rosterFile, staffFile, processing, cleanedRoster,
                   majorityMonth, activeTab, pc, job, rosterSheets, stages, outcome, edits>>

\* the Reset and Process Another buttons
reset ==
    /\ step \in {"verify", "complete"}
    /\ rosterFile' = NoFile
    /\ staffFile' = NoFile
    /\ step' = "upload"
    /\ cleanedRoster' = <<>>
    /\ majorityMonth' = Null
    /\ activeTab' = 0
    /\ exported' = NoExport
    /\ UNCHANGED <<nativeResult, fnVars, processing, pc, job, rosterSheets, stages,
                   outcome, edits>>

Next ==
    \/ handleRosterUpload
    \/ handleStaffUpload
    \/ startProcessing
    \/ RosterLoadFails
    \/ NoRosterTabs
    \/ RosterLoaded
    \/ StaffLoadFails
    \/ NoMajorityMonth
    \/ EmptyAfterCleaning
    \/ ProcessingSucceeds
    \/ setActiveTab
    \/ handleCellChange
    \/ handleExport
    \/ reset

Spec == Init /\ [][Next]_vars

\* the stages a run has gone through when it ends in the given way
StagesAt(how) ==
    CASE how = "loadFailed" -> {<<>>, <<"load">>}
      [] how = "noTabs" -> {<<"load">>}
      [] how = "noMonth" -> {<<"load", "staff", "analyze">>}
      [] how = "empty" -> {<<"load", "staff", "analyze", "clean">>}
      [] how = "ok" -> {AllStages}
      [] OTHER -> {<<>>, <<"load">>}

\* C9: an export is made only from the review of a run that went through load, staff
\* load, analysis, cleaning and name resolution in that order; a run that fails to load,
\* loads no sheet, finds no majority month or cleans to nothing stops at that stage
\* without the later ones, never shows the review, and ends with the processing flag down.
C9_ExportOnlyAfterFullRun ==
    /\ exported.made =>
          exported.from = "verify" /\ exported.outcome = "ok" /\ exported.stages = AllStages
    /\ step = "verify" => outcome = "ok" /\ stages = AllStages /\ pc = "idle"
    /\ stages \in StagesAt(outcome)
    /\ outcome \in {"loadFailed", "noTabs", "noMonth", "empty"} =>
          step = "upload" /\ ~processing /\ pc = "idle"
    /\ outcome # "running" => ~processing /\ pc = "idle"
    /\ outcome = "running" => step = "upload"

\* an export of two sheets has been made
C9_Witness ==
    /\ exported.made
    /\ step = "complete"
    /\ Len(exported.data) = 2

\* the index-2 cells of the data rows of the workbook on display: <<sheet, row>>
DateCellPlaces ==
    { <<i, r>> \in (1..Len(cleanedRoster)) \X (1..(RowLimit + 1)) :
        r \in 2..Len(cleanedRoster[i].data) }

\* the export hands over the same sheets, rows and cells as the workbook, but for the
\* index-2 cells of the data rows
SameButDateCells ==
    /\ Len(exported.data) = Len(cleanedRoster)
    /\ \A i \in 1..Len(cleanedRoster) :
          /\ exported.data[i].name = cleanedRoster[i].name
          /\ Len(exported.data[i].data) = Len(cleanedRoster[i].data)
          /\ \A r \in 1..Len(cleanedRoster[i].data) :
                /\ Len(exported.data[i].data[r]) = Len(cleanedRoster[i].data[r])
                /\ \A c \in 1..Len(cleanedRoster[i].data[r]) :
                      (r = 1 \/ c # 3) =>
                          exported.data[i].data[r][c] = cleanedRoster[i].data[r][c]

\* C11 as stated: whatever edits were made before the export, the index-2 cell of every
\* data row of every sheet is handed to the codec as a date, and every other cell (all
\* of row 0 and all other columns) is handed over exactly as it is in the workbook.
C11_DateCellAlwaysDate ==
    exported.made =>
        /\ SameButDateCells
        /\ \A p \in DateCellPlaces : exported.data[p[1]].data[p[2]][3].t = "date"

\* C11 amended: the index-2 cell of a data row is handed over as a date exactly when it
\* holds a date already (handed over unchanged) or holds non-empty text that parseYMD
\* turns into a date (handed over as that date); an empty cell or text that does not
\* parse is handed over as it is, and so is every other cell of the workbook.
C11_DateCellWhenParseable ==
    exported.made =>
        /\ SameButDateCells
        /\ \A p \in DateCellPlaces :
              LET cell == cleanedRoster[p[1]].data[p[2]][3]
                  out == exported.data[p[1]].data[p[2]][3]
                  parsed == parseYMD(cell)
              IN  /\ cell.t = "date" => out = cell
                  /\ (cell.t = "str" /\ cell.s # <<>> /\ parsed # Null) =>
                        out = parsed /\ out.t = "date"
                  /\ (cell.t = "str" /\ (cell.s = <<>> \/ parsed = Null)) => out = cell
                  /\ cell = Str(FmtYMD(2024, 5, 1, "-")) => out = DateV(2024, 4, 1)

\* an export was made of a workbook in which the index-2 cell of a data row had been
\* typed over with text that is no date, and the cell was handed over as that text
C11_Witness ==
    /\ exported.made
    /\ edits > 0
    /\ \E p \in DateCellPlaces :
          /\ cleanedRoster[p[1]].data[p[2]][3] = Str(<<"x">>)
          /\ exported.data[p[1]].data[p[2]][3] = Str(<<"x">>)

====
